---------------------------- MODULE Spec2Model ----------------------------
(***************************************************************************)
(* State-machine model of ctk.requests.RequestHandler: the retry loop of   *)
(* handle_request, the status check of _handle_response and the delay of   *)
(* _backoff_delay.  One handler object is constructed (Init) and           *)
(* handle_request is invoked on it; each action is one step of the loop    *)
(* body, so that the order of transport calls and sleeps is observable.    *)
(***************************************************************************)
EXTENDS Integers, Sequences, FiniteSets, TLC

(***************************************************************************)
(* Bounds of the model.                                                    *)
(***************************************************************************)
\* largest retry_max_attempts a handler is constructed with (0 is included)
MaxAttemptsBound == 3
\* width of the significand of the modelled floats (Python: 53); at least 3,
\* so that the cap 10 is a float as it is in Python
MantissaBits == 3
\* largest argument _backoff_delay is applied to on its own
MaxDelayArg == 10

(***************************************************************************)
(* Values the environment supplies.                                        *)
(***************************************************************************)
\* status codes the transport returns; the three status sets of a handler
\* are arbitrary subsets, so every overlap of the sets occurs for each code
Codes == {200, 429}

\* response.content, as the bytes of the body: "1", "2" and a lone 0xFF
Bodies == {<<49>>, <<50>>, <<255>>}

Methods == {"GET", "POST", "PUT"}

RequestIntervals == {5}

\* exceptions requests.get / requests.post raise; "Timeout" stands for Timeout
\* and its subclasses (ReadTimeout, ConnectTimeout), which the except clause
\* catches alike; ConnectionError is a RequestException that is no Timeout
TransportFailures == {"Timeout", "ConnectionError"}

Responses == [status_code : Codes, content : Bodies]

\* a local name that is not bound yet
Unbound == [status_code |-> 0, content |-> <<>>]

NoExc == [type |-> "None", args |-> <<>>, at |-> 0]

\* how the try statement of the loop body completes once its finally
\* clause has run: "none" (fall through to the while test), "return", "raise"
NoCompletion == [kind |-> "none", value |-> 0, exc |-> NoExc]

VARIABLES
  self,            \* the handler's fields, set by __init__
  pc,              \* position of handle_request
  attempt_number,  \* local of handle_request
  response,        \* local of handle_request, Unbound until first assigned
  e,               \* the exception bound by the except clause being run
  delay,           \* local of handle_request: last backoff delay, in 2^-MantissaBits s
  pending,         \* completion of the try statement awaiting the finally clause
  result,          \* what the invocation delivered to its caller
  events,          \* history: transport calls and sleeps of this invocation
  log,             \* history: outcome of each transport call of this invocation
  earlier          \* history: an earlier invocation on this handler has ended

vars == <<self, pc, attempt_number, response, e, delay, pending, result,
          events, log, earlier>>

(***************************************************************************)
(* Pure helpers.                                                           *)
(***************************************************************************)
Pow2(n) == 2 ^ n

Min(a, b) == IF a <= b THEN a ELSE b

\* x rounded to a multiple of q, ties to the even multiple (IEEE 754 default)
RoundHalfEven(x, q) ==
  LET lo == (x \div q) * q
      r  == x - lo
  IN  IF 2 * r < q THEN lo
      ELSE IF 2 * r > q THEN lo + q
      ELSE IF (lo \div q) % 2 = 0 THEN lo ELSE lo + q

\* spacing, in units of 2^-MantissaBits, of the floats around x > 0 units
RECURSIVE Ulp(_, _)
Ulp(x, q) == IF x < q * Pow2(MantissaBits) THEN q ELSE Ulp(x, 2 * q)

\* x units rounded to the nearest float
ToFloat(x) == IF x <= 0 THEN x ELSE RoundHalfEven(x, Ulp(x, 1))

\* faulty variant: the exponential base is not capped at 10
_backoff_delay_uncapped(n, u) ==
  LET d      == Pow2(n)
      jitter == u
      factor == ToFloat(Pow2(MantissaBits) + jitter)
  IN  ToFloat(d * factor)

\* _backoff_delay with random.uniform(0, 1) returning u / 2^MantissaBits;
\* the result is in units of 2^-MantissaBits seconds
_backoff_delay(n, u) ==
  LET d      == Min(Pow2(n), 10)
      jitter == u
      factor == ToFloat(Pow2(MantissaBits) + jitter)
  IN  ToFloat(d * factor)

\* values random.uniform(0, 1) returns, as numerators over 2^MantissaBits
Jitters == 0 .. (Pow2(MantissaBits) - 1)

\* bytes.decode('utf-8'): defined on bodies whose bytes are all ASCII
Utf8Ok(content) == \A i \in 1..Len(content) : content[i] < 128

Decode(content) == [i \in 1..Len(content) |-> content[i]]

\* response.json(): the body is one JSON digit, parsed to its number
JsonOk(content) == Len(content) = 1 /\ content[1] \in 48..57

Json(content) == content[1] - 48

\* faulty variant: a status outside valid_statuses and invalid_statuses raises HTTPError
_handle_response_no_unspecified(r, s) ==
  IF r.status_code \in s.valid_statuses THEN "True"
  ELSE "HTTPError"

\* faulty variant: invalid_statuses is checked before valid_statuses
_handle_response_invalid_first(r, s) ==
  IF r.status_code \in s.invalid_statuses THEN "HTTPError"
  ELSE IF r.status_code \in s.valid_statuses THEN "True"
  ELSE "UnspecifiedHTTPStatusError"

\* _handle_response: "True", or the exception it raises
_handle_response(r, s) ==
  IF r.status_code \in s.valid_statuses THEN "True"
  ELSE IF r.status_code \in s.invalid_statuses THEN "HTTPError"
  ELSE "UnspecifiedHTTPStatusError"

\* the while test of the loop
WhileCond(n, s) == n <= s.retry_max_attempts

\* faulty variant: the except clause does not compare attempt_number with the budget
ExceptDecisionNoBudget(n, r, s) ==
  IF r = Unbound THEN "UnboundLocalError"
  ELSE IF r.status_code \notin s.retry_statuses THEN "raise"
  ELSE "retry"

\* faulty variant: the except clause does not consult retry_statuses
ExceptDecisionAnyStatus(n, r, s) ==
  IF n = s.retry_max_attempts THEN "raise"
  ELSE IF r = Unbound THEN "UnboundLocalError"
  ELSE "retry"

\* faulty variant: the membership test of retry_statuses is inverted
ExceptDecisionInverted(n, r, s) ==
  IF n = s.retry_max_attempts THEN "raise"
  ELSE IF r = Unbound THEN "UnboundLocalError"
  ELSE IF r.status_code \in s.retry_statuses THEN "raise"
  ELSE "retry"

\* faulty variant: the except clause re-raises whatever it caught
ExceptDecisionNeverRetry(n, r, s) == "raise"

\* the if of the except clause: "raise" re-raises e, "retry" resends,
\* "UnboundLocalError" is the read of response before its first assignment
ExceptDecision(n, r, s) ==
  IF n = s.retry_max_attempts THEN "raise"
  ELSE IF r = Unbound THEN "UnboundLocalError"
  ELSE IF r.status_code \notin s.retry_statuses THEN "raise"
  ELSE "retry"

\* exception classes the first except clause catches
Caught == {"HTTPError", "Timeout", "ReadTimeout"}

Exc(type, args, n) == [type |-> type, args |-> args, at |-> n]

Raise(x) == [kind |-> "raise", value |-> 0, exc |-> x]

Return(v) == [kind |-> "return", value |-> v, exc |-> NoExc]

ReturnNone == [kind |-> "return_none", value |-> 0, exc |-> NoExc]

\* number of events of s tagged tag
Count(s, tag) == Cardinality({i \in 1..Len(s) : s[i][1] = tag})

\* transport calls, backoff sleeps and pacing sleeps of this invocation
calls == Count(events, "call")

backoffs == Count(events, "backoff")

paces == Count(events, "pace")

\* loop iterations started in this invocation
iterations == Count(events, "try")

(***************************************************************************)
(* Initial state: a handler as __init__ leaves it, no invocation yet.      *)
(***************************************************************************)
Init ==
  /\ self \in [base_url : {"https://api"}, headers : {"None"},
               method : Methods,
               request_interval : RequestIntervals,
               retry_max_attempts : 0..MaxAttemptsBound,
               valid_statuses : SUBSET Codes,
               invalid_statuses : SUBSET Codes,
               retry_statuses : SUBSET Codes]
  /\ pc = "idle"
  /\ attempt_number = 1
  /\ response = Unbound
  /\ e = NoExc
  /\ delay = 0
  /\ pending = NoCompletion
  /\ result = NoCompletion
  /\ events = <<>>
  /\ log = <<>>
  /\ earlier = FALSE

(***************************************************************************)
(* Actions.                                                                *)
(***************************************************************************)
\* faulty variant: the response of the earlier invocation is kept (as if it were
\* stored on the handler) and seen by the next invocation
InvokeKeepsResponse ==
  /\ pc \in {"idle", "done"}
  /\ attempt_number' = 1
  /\ e' = NoExc
  /\ delay' = 0
  /\ pending' = NoCompletion
  /\ result' = NoCompletion
  /\ events' = <<>>
  /\ log' = <<>>
  /\ pc' = "while"
  /\ earlier' = (earlier \/ pc = "done")
  /\ UNCHANGED <<self, response>>

\* handle_request is called on the handler, for the first time or after an
\* earlier invocation has ended: fresh locals, attempt_number = 1
Invoke ==
  /\ pc \in {"idle", "done"}
  /\ attempt_number' = 1
  /\ response' = Unbound
  /\ e' = NoExc
  /\ delay' = 0
  /\ pending' = NoCompletion
  /\ result' = NoCompletion
  /\ events' = <<>>
  /\ log' = <<>>
  /\ pc' = "while"
  /\ earlier' = (earlier \/ pc = "done")
  /\ UNCHANGED self

\* while attempt_number <= self.retry_max_attempts; falling out of the loop
\* ends the function, which then returns None
WhileTest ==
  /\ pc = "while"
  /\ IF WhileCond(attempt_number, self)
       THEN /\ pc' = "try"
            /\ events' = Append(events, <<"try", attempt_number>>)
            /\ UNCHANGED result
       ELSE /\ pc' = "done"
            /\ result' = ReturnNone
            /\ UNCHANGED events
  /\ UNCHANGED <<self, earlier, attempt_number, response, e, delay, pending, log>>

\* requests.get / requests.post returns a response or raises
SendRequest ==
  /\ pc = "try"
  /\ self.method \in {"GET", "POST"}
  /\ events' = Append(events, <<"call", attempt_number>>)
  /\ \/ \E r \in Responses :
          /\ response' = r
          /\ log' = Append(log, [exc |-> "None", response |-> r])
          /\ pc' = "handle"
          /\ UNCHANGED <<e, pending>>
     \/ \E t \in TransportFailures :
          /\ log' = Append(log, [exc |-> t, response |-> Unbound])
          /\ IF t \in Caught
               THEN /\ e' = Exc(t, <<>>, attempt_number)
                    /\ pc' = "except"
                    /\ UNCHANGED pending
               ELSE /\ pending' = Raise(Exc(t, <<>>, attempt_number))
                    /\ pc' = "finally"
                    /\ UNCHANGED e
          /\ UNCHANGED response
  /\ UNCHANGED <<self, earlier, attempt_number, delay, result>>

\* faulty variant: the except clause also catches the ValueError
InvalidMethodCaught ==
  /\ pc = "try"
  /\ self.method \notin {"GET", "POST"}
  /\ e' = Exc("ValueError", <<>>, attempt_number)
  /\ pc' = "except"
  /\ UNCHANGED <<self, earlier, attempt_number, response, pending, delay, result, events, log>>

\* the else branch of the method dispatch: ValueError, caught by no clause
InvalidMethod ==
  /\ pc = "try"
  /\ self.method \notin {"GET", "POST"}
  /\ pending' = Raise(Exc("ValueError", <<>>, attempt_number))
  /\ pc' = "finally"
  /\ UNCHANGED <<self, earlier, attempt_number, response, e, delay, result, events, log>>

\* if self._handle_response(response): return response.json()
HandleResponse ==
  /\ pc = "handle"
  /\ LET h == _handle_response(response, self) IN
       CASE h = "True" ->
              /\ pending' = IF JsonOk(response.content)
                              THEN Return(Json(response.content))
                              ELSE Raise(Exc("JSONDecodeError", <<>>, attempt_number))
              /\ pc' = "finally"
              /\ UNCHANGED e
         [] h = "HTTPError" ->
              IF Utf8Ok(response.content)
                THEN /\ e' = Exc("HTTPError", Decode(response.content), attempt_number)
                     /\ pc' = "except"
                     /\ UNCHANGED pending
                ELSE /\ pending' = Raise(Exc("UnicodeDecodeError", <<>>, attempt_number))
                     /\ pc' = "finally"
                     /\ UNCHANGED e
         [] OTHER ->
              \* except UnspecifiedHTTPStatusError as e: raise e
              /\ e' = Exc(h, <<response.status_code>>, attempt_number)
              /\ pending' = Raise(e')
              /\ pc' = "finally"
  /\ UNCHANGED <<self, earlier, attempt_number, response, delay, result, events, log>>

\* except (HTTPError, Timeout, ReadTimeout) as e: re-raise or go on to resend
ExceptHandler ==
  /\ pc = "except"
  /\ LET d == ExceptDecision(attempt_number, response, self) IN
       CASE d = "raise" ->
              /\ pending' = Raise(e)
              /\ pc' = "finally"
         [] d = "UnboundLocalError" ->
              /\ pending' = Raise(Exc("UnboundLocalError", <<>>, attempt_number))
              /\ pc' = "finally"
         [] OTHER ->
              /\ pc' = "backoff"
              /\ UNCHANGED pending
  /\ UNCHANGED <<self, earlier, attempt_number, response, e, delay, result, events, log>>

\* faulty variant: attempt_number is incremented before the delay is computed
BackoffSleepAfterIncrement ==
  /\ pc = "backoff"
  /\ attempt_number' = attempt_number + 1
  /\ \E u \in Jitters : delay' = _backoff_delay(attempt_number', u)
  /\ events' = Append(events, <<"backoff", attempt_number'>>)
  /\ pc' = "finally"
  /\ UNCHANGED <<self, earlier, response, e, pending, result, log>>

\* faulty variant: attempt_number advances by the rounded jitter factor, so a
\* jitter of one half or more skips an attempt
BackoffSleepJitterCounted ==
  /\ pc = "backoff"
  /\ \E u \in Jitters :
       /\ delay' = _backoff_delay(attempt_number, u)
       /\ attempt_number' =
            attempt_number + (IF 2 * u >= Pow2(MantissaBits) THEN 2 ELSE 1)
  /\ events' = Append(events, <<"backoff", attempt_number>>)
  /\ pc' = "finally"
  /\ UNCHANGED <<self, earlier, response, e, pending, result, log>>

\* delay = self._backoff_delay(attempt_number); time.sleep(delay);
\* attempt_number += 1
BackoffSleep ==
  /\ pc = "backoff"
  /\ \E u \in Jitters : delay' = _backoff_delay(attempt_number, u)
  /\ events' = Append(events, <<"backoff", attempt_number>>)
  /\ attempt_number' = attempt_number + 1
  /\ pc' = "finally"
  /\ UNCHANGED <<self, earlier, response, e, pending, result, log>>

\* faulty variant: the pacing sleep sits after the try statement instead of in a
\* finally clause, so an iteration that returns or raises skips it
FinallySkippedOnExit ==
  /\ pc = "finally"
  /\ IF pending.kind = "none"
       THEN /\ pc' = "while"
            /\ events' = Append(events, <<"pace", iterations>>)
            /\ UNCHANGED result
       ELSE /\ pc' = "done"
            /\ result' = pending
            /\ UNCHANGED events
  /\ UNCHANGED <<self, earlier, attempt_number, response, e, delay, pending, log>>

\* finally: time.sleep(self.request_interval); then the try statement
\* completes as pending says
Finally ==
  /\ pc = "finally"
  /\ events' = Append(events, <<"pace", iterations>>)
  /\ IF pending.kind = "none"
       THEN /\ pc' = "while"
            /\ UNCHANGED result
       ELSE /\ pc' = "done"
            /\ result' = pending
  /\ UNCHANGED <<self, earlier, attempt_number, response, e, delay, pending, log>>

Next ==
  \/ Invoke
  \/ WhileTest
  \/ SendRequest
  \/ InvalidMethod
  \/ HandleResponse
  \/ ExceptHandler
  \/ BackoffSleep
  \/ Finally

Spec == Init /\ [][Next]_vars

\* an invocation that has started keeps running: every transport call and
\* every sleep returns, and the interpreter takes the next step; the caller
\* is not obliged to invoke
Step ==
  \/ WhileTest
  \/ SendRequest
  \/ InvalidMethod
  \/ HandleResponse
  \/ ExceptHandler
  \/ BackoffSleep
  \/ Finally

FairSpec == Spec /\ WF_vars(Step)

(***************************************************************************)
(* _backoff_delay on its own: the static method applied to any attempt     *)
(* number 0..MaxDelayArg with any value of the random source.  The handler *)
(* fields play no part; pc tells whether an argument or a result is held.  *)
(***************************************************************************)
InitDelay ==
  /\ self = [base_url |-> "https://api", headers |-> "None", method |-> "GET",
             request_interval |-> 5, retry_max_attempts |-> 3,
             valid_statuses |-> {200}, invalid_statuses |-> {429},
             retry_statuses |-> {429}]
  /\ pc = "delay_arg"
  /\ attempt_number \in 0..MaxDelayArg
  /\ response = Unbound
  /\ e = NoExc
  /\ delay = 0
  /\ pending = NoCompletion
  /\ result = NoCompletion
  /\ events = <<>>
  /\ log = <<>>
  /\ earlier = FALSE

\* delay = RequestHandler._backoff_delay(attempt_number)
ApplyBackoffDelay ==
  /\ pc = "delay_arg"
  /\ \E u \in Jitters :
       /\ delay' = _backoff_delay(attempt_number, u)
       /\ events' = <<<<"backoff", attempt_number>>, <<"jitter", u>>>>
  /\ pc' = "delay_result"
  /\ UNCHANGED <<self, earlier, attempt_number, response, e, pending, result, log>>

\* the next call of _backoff_delay, with another argument
NextDelayArg ==
  /\ pc = "delay_result"
  /\ attempt_number' \in 0..MaxDelayArg
  /\ pc' = "delay_arg"
  /\ UNCHANGED <<self, earlier, response, e, delay, pending, result, events, log>>

NextDelay ==
  \/ ApplyBackoffDelay
  \/ NextDelayArg

SpecDelay == InitDelay /\ [][NextDelay]_vars

(***************************************************************************)
(* Vocabulary of the properties.                                           *)
(***************************************************************************)
MaxAttempts == self.retry_max_attempts

ValidMethod == self.method \in {"GET", "POST"}

\* the i-th transport call of this invocation returned a response
IsResponse(i) == log[i].exc = "None"

StatusOf(i) == log[i].response.status_code

BodyOf(i) == log[i].response.content

InValid(c) == c \in self.valid_statuses

InInvalid(c) == c \in self.invalid_statuses

InRetry(c) == c \in self.retry_statuses

\* the specification's classes, accepted checked first, then rejected,
\* then retryable
SpecAccepted(c) == InValid(c)

SpecRejected(c) == ~InValid(c) /\ InInvalid(c)

SpecRetryable(c) == ~InValid(c) /\ ~InInvalid(c) /\ InRetry(c)

SpecUnclassified(c) == ~InValid(c) /\ ~InInvalid(c) /\ ~InRetry(c)

\* a status the handler resends on: invalid and retry, not valid
ResentStatus(c) == ~InValid(c) /\ InInvalid(c) /\ InRetry(c)

\* the three status sets are pairwise disjoint as far as retry is concerned
RetryDisjoint ==
  /\ self.retry_statuses \cap self.valid_statuses = {}
  /\ self.retry_statuses \cap self.invalid_statuses = {}

Started == pc # "idle"

Done == pc = "done"

(***************************************************************************)
(* C1: with maxAttempts >= 1, in every reachable state of an invocation    *)
(* the number of transport calls issued is at most maxAttempts and the     *)
(* attempt ordinal is within 1..maxAttempts.                               *)
(***************************************************************************)
C1_WithinBudget ==
  (Started /\ MaxAttempts >= 1) =>
     /\ calls <= MaxAttempts
     /\ attempt_number \in 1..MaxAttempts

\* the whole budget was used: as many calls as maxAttempts, more than one
C1_Witness ==
  /\ Done
  /\ MaxAttempts >= 2
  /\ calls = MaxAttempts
  /\ attempt_number = MaxAttempts

(***************************************************************************)
(* C2 as claimed: after an attempt whose response status is Rejected (in   *)
(* rejectedStatuses, not in acceptedStatuses) or Unclassified (in none of  *)
(* the three sets) no further transport call is issued and the error is   *)
(* surfaced, whatever the other sets contain.                              *)
(***************************************************************************)
C2_Original ==
  \A i \in 1..Len(log) :
    (IsResponse(i) /\ (SpecRejected(StatusOf(i)) \/ SpecUnclassified(StatusOf(i)))) =>
       /\ i = Len(log)
       /\ Done => (result.kind = "raise" /\ result.exc.at = i)

(***************************************************************************)
(* C2 amended: after an attempt whose response status is in                *)
(* rejectedStatuses and in neither acceptedStatuses nor retryableStatuses, *)
(* or is in none of the three sets, no further transport call is issued    *)
(* and the invocation ends by raising an error of that attempt.            *)
(***************************************************************************)
C2_NoRetryOfNonRetryable ==
  \A i \in 1..Len(log) :
    (IsResponse(i) /\ ( (SpecRejected(StatusOf(i)) /\ ~InRetry(StatusOf(i)))
                        \/ SpecUnclassified(StatusOf(i)) )) =>
       /\ i = Len(log)
       /\ calls = i
       /\ pc \in {"handle", "except", "finally", "done"}
       /\ Done => (result.kind = "raise" /\ result.exc.at = i)

\* a rejected, non-retry status ended the invocation with budget left
C2_Witness ==
  /\ Done
  /\ MaxAttempts >= 2
  /\ Len(log) = 1
  /\ IsResponse(1) /\ SpecRejected(StatusOf(1)) /\ ~InRetry(StatusOf(1))
  /\ result.kind = "raise" /\ result.exc.type = "HTTPError"

(***************************************************************************)
(* C3: the number of pacing sleeps is equal to, or exactly one less than,  *)
(* the number of attempts started, and equals it when the invocation has   *)
(* ended, on every path; with a GET or POST handler every attempt is one   *)
(* transport call, so pacing sleeps equal transport calls at the end.      *)
(***************************************************************************)
C3_PacingPerAttempt ==
  /\ paces \in {iterations, iterations - 1}
  /\ pc \in {"idle", "while", "done"} => paces = iterations
  /\ pc \in {"try", "handle", "except", "backoff", "finally"} => paces = iterations - 1
  /\ (Done /\ ValidMethod) => paces = calls

\* an invocation of several attempts ended with an error
C3_Witness ==
  /\ Done
  /\ iterations >= 2
  /\ paces = iterations
  /\ result.kind = "raise"

(***************************************************************************)
(* C4 as claimed: with the retryable set disjoint from the accepted and    *)
(* rejected sets, a transport that returns one retryable status on every   *)
(* attempt makes the invocation perform exactly maxAttempts attempts and   *)
(* then raise the HTTP status error.                                       *)
(***************************************************************************)
C4_Original ==
  ( /\ Done /\ MaxAttempts >= 1 /\ ValidMethod /\ RetryDisjoint
    /\ Len(log) >= 1
    /\ \A i \in 1..Len(log) :
         IsResponse(i) /\ StatusOf(i) = StatusOf(1) /\ InRetry(StatusOf(i)) )
  => /\ calls = MaxAttempts
     /\ result.kind = "raise"
     /\ result.exc.type = "HTTPError"

(***************************************************************************)
(* C4 amended: for a status that is in retryableStatuses and in            *)
(* rejectedStatuses and not in acceptedStatuses, a transport that returns  *)
(* it with a UTF-8 body on every attempt makes the invocation perform      *)
(* exactly maxAttempts attempts and then raise the HTTP status error of    *)
(* the last response.                                                      *)
(***************************************************************************)
C4_ExhaustsBudget ==
  ( /\ Done /\ MaxAttempts >= 1 /\ ValidMethod
    /\ Len(log) >= 1
    /\ \A i \in 1..Len(log) :
         /\ IsResponse(i) /\ StatusOf(i) = StatusOf(1)
         /\ ResentStatus(StatusOf(i)) /\ Utf8Ok(BodyOf(i)) )
  => /\ calls = MaxAttempts
     /\ iterations = MaxAttempts
     /\ result = Raise(Exc("HTTPError", Decode(BodyOf(Len(log))), MaxAttempts))

\* every attempt of a budget of several returned the same resent status
C4_Witness ==
  /\ Done /\ MaxAttempts >= 2
  /\ calls = MaxAttempts
  /\ \A i \in 1..Len(log) :
       IsResponse(i) /\ StatusOf(i) = StatusOf(1) /\ ResentStatus(StatusOf(i))
  /\ result.kind = "raise" /\ result.exc.type = "HTTPError"

(***************************************************************************)
(* C5 as claimed: if the transport returns a Retryable status on attempts  *)
(* 1..k-1 and an Accepted status on attempt k <= maxAttempts, the          *)
(* invocation performs exactly k attempts and returns the parsed body of   *)
(* the k-th response.  An ended invocation whose calls all follow such a   *)
(* script has therefore reached the accepted response and returned it.     *)
(***************************************************************************)
C5_Original ==
  ( /\ Done /\ MaxAttempts >= 1 /\ ValidMethod
    /\ Len(log) >= 1
    /\ \A i \in 1..(Len(log) - 1) : IsResponse(i) /\ SpecRetryable(StatusOf(i))
    /\ IsResponse(Len(log))
    /\ \/ SpecAccepted(StatusOf(Len(log)))
       \/ SpecRetryable(StatusOf(Len(log))) /\ Len(log) < MaxAttempts )
  => /\ SpecAccepted(StatusOf(Len(log)))
     /\ result.kind = "return"
     /\ result.value = Json(BodyOf(Len(log)))

(***************************************************************************)
(* C5 amended: if the transport returns, on attempts 1..k-1, a status that *)
(* is in retryableStatuses and rejectedStatuses and not in                 *)
(* acceptedStatuses, with a UTF-8 body, and on attempt k <= maxAttempts an *)
(* accepted status with a body that parses as JSON, the invocation         *)
(* performs exactly k attempts and returns the parsed k-th body.           *)
(***************************************************************************)
C5_ReturnsKthBody ==
  ( /\ Done /\ MaxAttempts >= 1 /\ ValidMethod
    /\ Len(log) >= 1
    /\ \A i \in 1..(Len(log) - 1) :
         IsResponse(i) /\ ResentStatus(StatusOf(i)) /\ Utf8Ok(BodyOf(i))
    /\ IsResponse(Len(log))
    /\ \/ SpecAccepted(StatusOf(Len(log))) /\ JsonOk(BodyOf(Len(log)))
       \/ /\ ResentStatus(StatusOf(Len(log))) /\ Utf8Ok(BodyOf(Len(log)))
          /\ Len(log) < MaxAttempts )
  => /\ SpecAccepted(StatusOf(Len(log)))
     /\ calls = Len(log)
     /\ iterations = Len(log)
     /\ result = Return(Json(BodyOf(Len(log))))

\* resent on the first attempt, accepted on the second with another body
C5_Witness ==
  /\ Done /\ MaxAttempts >= 3
  /\ Len(log) = 2
  /\ IsResponse(1) /\ ResentStatus(StatusOf(1))
  /\ IsResponse(2) /\ SpecAccepted(StatusOf(2))
  /\ JsonOk(BodyOf(1)) /\ BodyOf(1) # BodyOf(2)
  /\ result = Return(Json(BodyOf(2)))

(***************************************************************************)
(* C6 as claimed: a transport failure (timeout, read-timeout, connection   *)
(* error) on attempt n is retried when n < maxAttempts and is re-raised to *)
(* the caller only when n = maxAttempts, on every attempt including the    *)
(* first.  So an iteration whose transport call failed ends the invocation *)
(* only on the last attempt, and then with that very failure.              *)
(***************************************************************************)
LastCallFailed ==
  /\ Len(log) >= 1
  /\ Len(log) = iterations
  /\ ~IsResponse(Len(log))

C6_Original ==
  (Started /\ MaxAttempts >= 1 /\ LastCallFailed /\ pending.kind = "raise") =>
     /\ iterations = MaxAttempts
     /\ pending.exc = Exc(log[Len(log)].exc, <<>>, iterations)

(***************************************************************************)
(* The class the handler acts on once the response of the current attempt  *)
(* has been handled: it resends (Retryable), returns the parsed body or    *)
(* fails parsing it (Accepted), raises the unspecified-status error        *)
(* (Unclassified) or raises the HTTP error / fails building it (Rejected). *)
(***************************************************************************)
Decided ==
  /\ Len(log) >= 1
  /\ Len(log) = iterations
  /\ IsResponse(Len(log))
  /\ \/ pc = "backoff"
     \/ pc = "finally" /\ pending.kind # "none"

ActedOn ==
  IF pc = "backoff" THEN "Retryable"
  ELSE IF pending.kind = "return" \/ pending.exc.type = "JSONDecodeError" THEN "Accepted"
  ELSE IF pending.exc.type = "UnspecifiedHTTPStatusError" THEN "Unclassified"
  ELSE IF pending.exc.type \in {"HTTPError", "UnicodeDecodeError"} THEN "Rejected"
  ELSE "Other"

\* on the last attempt a Retryable status raises the HTTP error like a
\* Rejected one
OnAttempt(class, n) ==
  IF class = "Retryable" /\ n = MaxAttempts THEN "Rejected" ELSE class

SpecClass(c) ==
  IF InValid(c) THEN "Accepted"
  ELSE IF InInvalid(c) THEN "Rejected"
  ELSE IF InRetry(c) THEN "Retryable"
  ELSE "Unclassified"

CodeClass(r) ==
  IF InValid(r.status_code) THEN "Accepted"
  ELSE IF InInvalid(r.status_code)
         THEN (IF InRetry(r.status_code) /\ Utf8Ok(r.content)
                 THEN "Retryable" ELSE "Rejected")
  ELSE "Unclassified"

(***************************************************************************)
(* C7 as claimed: the class acted on is Accepted for every code in         *)
(* acceptedStatuses, else Rejected for every code in rejectedStatuses,     *)
(* else Retryable for every code in retryableStatuses, else Unclassified.  *)
(***************************************************************************)
C7_Original ==
  Decided => ActedOn = OnAttempt(SpecClass(StatusOf(Len(log))), attempt_number)

(***************************************************************************)
(* C7 amended: the class acted on is a total function of the response and  *)
(* the three sets: Accepted for every code in acceptedStatuses; otherwise, *)
(* for a code in rejectedStatuses, Retryable when the code is also in      *)
(* retryableStatuses and the body decodes as UTF-8, else Rejected;         *)
(* Unclassified for every other code, also one that is only in             *)
(* retryableStatuses.  Accepted is checked first, then rejected;           *)
(* retryable is consulted only for a rejected code.                        *)
(***************************************************************************)
C7_Classification ==
  Decided => ActedOn = OnAttempt(CodeClass(log[Len(log)].response), attempt_number)

\* the second attempt's status, in the rejected and retryable sets, is being
\* resent by a handler whose three sets also share a code
C7_Witness ==
  /\ Decided
  /\ pc = "backoff"
  /\ attempt_number = 2
  /\ ActedOn = "Retryable"
  /\ InInvalid(StatusOf(2)) /\ InRetry(StatusOf(2)) /\ ~InValid(StatusOf(2))
  /\ \E c \in Codes : InValid(c) /\ InInvalid(c) /\ InRetry(c)

(***************************************************************************)
(* C8 as claimed: if the first attempt's response has a Rejected status,   *)
(* the invocation performs exactly 1 attempt, raises the HTTP error, and   *)
(* performs zero backoff delays and exactly one pacing delay.              *)
(***************************************************************************)
C8_Original ==
  (Len(log) >= 1 /\ IsResponse(1) /\ SpecRejected(StatusOf(1))) =>
     /\ Len(log) = 1
     /\ backoffs = 0
     /\ Done => /\ calls = 1
                /\ paces = 1
                /\ result.kind = "raise"
                /\ result.exc.type = "HTTPError"

(***************************************************************************)
(* C8 amended: if the first attempt's response has a status that is in     *)
(* rejectedStatuses and not in acceptedStatuses, that is not in            *)
(* retryableStatuses unless maxAttempts = 1, and a body that decodes as    *)
(* UTF-8, the invocation performs exactly 1 attempt, raises the HTTP error *)
(* carrying the decoded body, and performs zero backoff delays and exactly *)
(* one pacing delay.                                                       *)
(***************************************************************************)
C8_RejectedFirstAttempt ==
  ( /\ Len(log) >= 1 /\ IsResponse(1) /\ SpecRejected(StatusOf(1))
    /\ ~InRetry(StatusOf(1)) \/ MaxAttempts = 1
    /\ Utf8Ok(BodyOf(1)) ) =>
     /\ Len(log) = 1
     /\ iterations = 1
     /\ backoffs = 0
     /\ pc # "backoff"
     /\ Done => /\ calls = 1
                /\ paces = 1
                /\ result = Raise(Exc("HTTPError", Decode(BodyOf(1)), 1))

\* rejected on the first of several allowed attempts: one call, one pacing
\* sleep, no backoff, HTTPError delivered
C8_Witness ==
  /\ Done /\ MaxAttempts >= 2
  /\ Len(log) = 1
  /\ IsResponse(1) /\ SpecRejected(StatusOf(1)) /\ ~InRetry(StatusOf(1))
  /\ calls = 1 /\ paces = 1 /\ backoffs = 0
  /\ result.kind = "raise" /\ result.exc.type = "HTTPError"
  /\ result.exc.args = Decode(BodyOf(1))

(***************************************************************************)
(* C9: a response whose status is in none of the three sets makes the      *)
(* invocation raise UnspecifiedHTTPStatusError on that very attempt: no    *)
(* further transport call, no backoff delay for that attempt (none at all  *)
(* on the first attempt), whatever maxAttempts is.                         *)
(***************************************************************************)
C9_UnspecifiedRaisedAtOnce ==
  \A i \in 1..Len(log) :
    (IsResponse(i) /\ SpecUnclassified(StatusOf(i))) =>
       /\ i = Len(log)
       /\ iterations = i
       /\ backoffs = i - 1
       /\ pc \in {"handle", "finally", "done"}
       /\ pc \in {"finally", "done"} =>
            pending = Raise(Exc("UnspecifiedHTTPStatusError", <<StatusOf(i)>>, i))
       /\ Done => (result = pending /\ calls = i)

\* an unspecified status on the first of several allowed attempts
C9_Witness ==
  /\ Done /\ MaxAttempts >= 2
  /\ Len(log) = 1 /\ IsResponse(1) /\ SpecUnclassified(StatusOf(1))
  /\ calls = 1 /\ backoffs = 0
  /\ result.exc.type = "UnspecifiedHTTPStatusError"

(***************************************************************************)
(* C10 as claimed: an invocation with maxAttempts >= 1 ends either by      *)
(* returning the parsed payload of an Accepted response or by raising one  *)
(* error of the taxonomy (transport error, HTTP status error, unspecified  *)
(* status error, invalid configuration error), which is the error the      *)
(* final attempt produced; no error is replaced by a different one.        *)
(***************************************************************************)
Taxonomy ==
  {"Timeout", "ReadTimeout", "ConnectionError", "HTTPError",
   "UnspecifiedHTTPStatusError", "ValueError"}

C10_Original ==
  (Done /\ MaxAttempts >= 1) =>
     \/ /\ result.kind = "return"
        /\ Len(log) >= 1 /\ IsResponse(Len(log))
        /\ SpecAccepted(StatusOf(Len(log)))
        /\ result.value = Json(BodyOf(Len(log)))
     \/ /\ result.kind = "raise"
        /\ result.exc.type \in Taxonomy
        /\ result.exc.at = iterations
        /\ LastCallFailed => result.exc.type = log[Len(log)].exc

(***************************************************************************)
(* The backoff delay in seconds is delay / Unit.                           *)
(***************************************************************************)
Unit == Pow2(MantissaBits)

\* min(2^n, 10), written out: 1, 2, 4, 8 and 10 from n = 4 on
CappedBase(n) == IF n >= 4 THEN 10 ELSE IF n = 3 THEN 8 ELSE IF n = 2 THEN 4
                 ELSE IF n = 1 THEN 2 ELSE 1

DelayComputed == pc = "delay_result"

(***************************************************************************)
(* C11 as claimed: for every attempt number n >= 0 and every jitter the    *)
(* random source produces, min(2^n, 10) <= d < 2 * min(2^n, 10).           *)
(***************************************************************************)
C11_Original ==
  DelayComputed =>
     /\ CappedBase(attempt_number) * Unit <= delay
     /\ delay < 2 * CappedBase(attempt_number) * Unit

(***************************************************************************)
(* C11 amended: for every attempt number n >= 0 and every jitter the       *)
(* random source produces, min(2^n, 10) <= d <= 2 * min(2^n, 10); the      *)
(* base is 1 at n = 0 and 10 for every n >= 4.  The upper bound is reached *)
(* when 1 + jitter rounds up to 2.0.                                       *)
(***************************************************************************)
C11_DelayBounds ==
  DelayComputed =>
     /\ CappedBase(attempt_number) * Unit <= delay
     /\ delay <= 2 * CappedBase(attempt_number) * Unit
     /\ attempt_number = 0 => delay \in Unit .. 2 * Unit
     /\ attempt_number >= 4 => delay \in 10 * Unit .. 20 * Unit

\* at n = 10 the largest jitter below 1 gives exactly twice the capped base
C11_Witness ==
  /\ DelayComputed
  /\ attempt_number = 10
  /\ events[2] = <<"jitter", Unit - 1>>
  /\ delay = 20 * Unit

(***************************************************************************)
(* C12: when the configured method is neither GET nor POST, the first loop *)
(* iteration raises ValueError without any transport call, backoff delay   *)
(* or retry, whatever maxAttempts >= 1 is; the pacing delay runs once and  *)
(* then the error is delivered.                                            *)
(***************************************************************************)
C12_InvalidMethod ==
  (Started /\ ~ValidMethod /\ MaxAttempts >= 1) =>
     /\ calls = 0 /\ Len(log) = 0
     /\ backoffs = 0
     /\ pc \in {"while", "try", "finally", "done"}
     /\ pc = "while" => iterations = 0
     /\ pc = "try" => iterations = 1 /\ paces = 0
     /\ pc = "finally" =>
          /\ iterations = 1 /\ paces = 0
          /\ pending = Raise(Exc("ValueError", <<>>, 1))
          /\ result = NoCompletion
     /\ Done =>
          /\ iterations = 1 /\ paces = 1
          /\ result = Raise(Exc("ValueError", <<>>, 1))

\* a PUT handler allowed several attempts delivered ValueError after one
\* pacing sleep and no call
C12_Witness ==
  /\ Done
  /\ ~ValidMethod /\ MaxAttempts >= 2
  /\ result.kind = "raise" /\ result.exc.type = "ValueError"
  /\ events = <<<<"try", 1>>, <<"pace", 1>>>>

(***************************************************************************)
(* C13: the pacing delay of the final attempt has completed when the       *)
(* result or error is delivered, and around a resend the events are, in    *)
(* this order, transport call n, backoff delay for n, pacing delay for n,  *)
(* transport call n+1: every call is the first event of its iteration and  *)
(* an iteration starts only when the previous one has slept its delays.    *)
(***************************************************************************)
LastEvent == events[Len(events)]

EventInOrder(i) ==
  LET ev == events[i]
      n  == ev[2]
  IN  CASE ev[1] = "try" ->
             \/ i = 1 /\ n = 1
             \/ /\ i >= 5 /\ n >= 2
                /\ events[i - 1] = <<"pace", n - 1>>
                /\ events[i - 2] = <<"backoff", n - 1>>
                /\ events[i - 3] = <<"call", n - 1>>
                /\ events[i - 4] = <<"try", n - 1>>
        [] ev[1] = "call" -> i >= 2 /\ events[i - 1] = <<"try", n>>
        [] ev[1] = "backoff" -> i >= 3 /\ events[i - 1] = <<"call", n>>
        [] ev[1] = "pace" ->
             /\ i >= 2
             /\ events[i - 1] \in {<<"try", n>>, <<"call", n>>, <<"backoff", n>>}
             /\ events[i - 1] = <<"try", n>> => ~ValidMethod
        [] OTHER -> FALSE

C13_EventOrder ==
  /\ \A i \in 1..Len(events) : EventInOrder(i)
  /\ pc # "done" => result = NoCompletion
  /\ (Done /\ MaxAttempts >= 1) =>
       /\ result = pending
       /\ result.kind \in {"return", "raise"}
       /\ LastEvent = <<"pace", iterations>>
  /\ pc = "try" => LastEvent = <<"try", attempt_number>>
  /\ pc \in {"handle", "except", "backoff"} => LastEvent = <<"call", attempt_number>>

\* one resend: call 1, backoff 1, pace 1, call 2, pace 2, then delivery
C13_Witness ==
  /\ Done
  /\ events = << <<"try", 1>>, <<"call", 1>>, <<"backoff", 1>>, <<"pace", 1>>,
                 <<"try", 2>>, <<"call", 2>>, <<"pace", 2>> >>
  /\ result.kind = "return"

(***************************************************************************)
(* C14: a backoff delay is computed and slept only when the handler        *)
(* resends: it is invoked with the ordinal of the attempt that just        *)
(* failed, 1, 2, ..., k-1 in that order for a run of k attempts, never on  *)
(* the attempt that ends the loop; when the invocation has ended after k   *)
(* >= 1 attempts there were k - 1 backoff delays.                          *)
(***************************************************************************)
IsBackoff(ev) == ev[1] = "backoff"

BackoffEvents == SelectSeq(events, IsBackoff)

\* the delays _backoff_delay can return for attempt n, over every jitter
BackoffDelays ==
  [n \in 1..MaxAttemptsBound |-> {_backoff_delay(n, u) : u \in Jitters}]

C14_BackoffOnlyOnResend ==
  Started =>
     /\ \A i \in 1..Len(BackoffEvents) : BackoffEvents[i][2] = i
     /\ backoffs = attempt_number - 1
     /\ backoffs >= 1 => delay \in BackoffDelays[backoffs]
     /\ backoffs = 0 => delay = 0
     /\ pc \in {"try", "handle", "except", "backoff"} => backoffs = iterations - 1
     /\ (pc = "finally" /\ pending.kind # "none") => backoffs = iterations - 1
     /\ (pc = "finally" /\ pending.kind = "none") =>
          /\ backoffs = iterations
          /\ LastEvent = <<"backoff", iterations>>
     /\ (Done /\ iterations >= 1) => backoffs = iterations - 1

\* a run of three attempts ended after backoff delays for attempts 1 and 2
C14_Witness ==
  /\ Done
  /\ iterations = 3
  /\ BackoffEvents = << <<"backoff", 1>>, <<"backoff", 2>> >>
  /\ result.kind = "raise"

(***************************************************************************)
(* C15 as claimed: an invocation with maxAttempts >= 1 (and a GET or POST  *)
(* handler) ends in one of the terminal states Succeeded, Rejected,        *)
(* Unclassified or ExhaustedRetries, the last only on the attempt with     *)
(* attemptNumber = maxAttempts, by a final Retryable classification or a   *)
(* final transport failure.                                                *)
(***************************************************************************)
Succeeded == result.kind = "return"

RaisedHTTPError == result.kind = "raise" /\ result.exc.type = "HTTPError"

RaisedUnspecified ==
  result.kind = "raise" /\ result.exc.type = "UnspecifiedHTTPStatusError"

RaisedTransportFailure ==
  result.kind = "raise" /\ result.exc.type \in TransportFailures

C15_Original ==
  (Done /\ MaxAttempts >= 1 /\ ValidMethod) =>
     /\ \/ Succeeded
        \/ RaisedHTTPError
        \/ RaisedUnspecified
        \/ RaisedTransportFailure
     /\ RaisedTransportFailure => iterations = MaxAttempts
     /\ (RaisedHTTPError /\ InRetry(StatusOf(Len(log)))) => iterations = MaxAttempts

\* the part of C15 that holds: once invoked, handle_request ends
C15_Terminates == (pc = "while") ~> Done


(***************************************************************************)
(* What an invocation must deliver, computed from the handler fields and   *)
(* the transport outcomes alone.                                           *)
(***************************************************************************)
\* the response the local name holds after outcomes 1..k: the latest one
RECURSIVE StaleResponse(_, _)
StaleResponse(l, k) ==
  IF k = 0 THEN Unbound
  ELSE IF l[k].exc = "None" THEN l[k].response
  ELSE StaleResponse(l, k - 1)

\* outcome k of l ends the invocation of handler s
TerminalAt(s, l, k) ==
  LET o     == l[k]
      stale == StaleResponse(l, k - 1)
  IN  IF o.exc = "ConnectionError" THEN TRUE
      ELSE IF o.exc # "None"
        THEN \/ k = s.retry_max_attempts
             \/ stale = Unbound
             \/ stale.status_code \notin s.retry_statuses
      ELSE IF o.response.status_code \in s.valid_statuses THEN TRUE
      ELSE IF o.response.status_code \in s.invalid_statuses
        THEN \/ ~Utf8Ok(o.response.content)
             \/ k = s.retry_max_attempts
             \/ o.response.status_code \notin s.retry_statuses
      ELSE TRUE

\* what handler s delivers when l are the outcomes of all its transport calls
ExpectedResult(s, l) ==
  LET k == Len(l) IN
  IF s.retry_max_attempts < 1 THEN ReturnNone
  ELSE IF s.method \notin {"GET", "POST"} THEN Raise(Exc("ValueError", <<>>, 1))
  ELSE
    LET o == l[k]
        r == o.response
    IN  IF o.exc = "ConnectionError" THEN Raise(Exc(o.exc, <<>>, k))
        ELSE IF o.exc # "None"
          THEN IF k # s.retry_max_attempts /\ StaleResponse(l, k - 1) = Unbound
                 THEN Raise(Exc("UnboundLocalError", <<>>, k))
                 ELSE Raise(Exc(o.exc, <<>>, k))
        ELSE IF r.status_code \in s.valid_statuses
          THEN IF JsonOk(r.content) THEN Return(Json(r.content))
               ELSE Raise(Exc("JSONDecodeError", <<>>, k))
        ELSE IF r.status_code \in s.invalid_statuses
          THEN IF Utf8Ok(r.content)
                 THEN Raise(Exc("HTTPError", Decode(r.content), k))
                 ELSE Raise(Exc("UnicodeDecodeError", <<>>, k))
        ELSE Raise(Exc("UnspecifiedHTTPStatusError", <<r.status_code>>, k))

\* loop iterations of an invocation of s whose transport outcomes are l
ExpectedAttempts(s, l) ==
  IF s.retry_max_attempts < 1 THEN 0
  ELSE IF s.method \notin {"GET", "POST"} THEN 1
  ELSE Len(l)

(***************************************************************************)
(* C16: handle_request changes no field of the handler on any path, and    *)
(* each invocation starts with attempt_number = 1 and response unbound, so *)
(* what an invocation delivers and how many attempts it makes depend on    *)
(* the handler fields and the transport outcomes of that invocation only,  *)
(* whether or not earlier invocations ran on the handler.                  *)
(***************************************************************************)
InvocationStarts == pc \in {"idle", "done"} /\ pc' = "while"

FreshLocals ==
  /\ attempt_number = 1
  /\ response = Unbound
  /\ delay = 0
  /\ events = <<>> /\ log = <<>>
  /\ pending = NoCompletion /\ result = NoCompletion

C16_NoCarryOver ==
  /\ [][self' = self]_vars
  /\ [][InvocationStarts => FreshLocals']_vars
  /\ [](Done => /\ result = ExpectedResult(self, log)
                /\ iterations = ExpectedAttempts(self, log))

\* a later invocation on a handler that was used before: a Timeout on its
\* first attempt finds response unbound, whatever the earlier invocation got
C16_Witness ==
  /\ Done /\ earlier
  /\ MaxAttempts >= 2
  /\ Len(log) = 1 /\ log[1].exc = "Timeout"
  /\ result = Raise(Exc("UnboundLocalError", <<>>, 1))

(***************************************************************************)
(* C17: a transport call follows a received response only if the status of *)
(* that response is in retry_statuses and in invalid_statuses and not in   *)
(* valid_statuses, and the attempt that received it was not the last one   *)
(* allowed; a status in retry_statuses but in neither of the other two     *)
(* sets ends the invocation on its attempt and is never resent.            *)
(***************************************************************************)
C17_ResendCondition ==
  /\ \A i \in 1..Len(log) :
       (IsResponse(i) /\ i < Len(log)) =>
          /\ InRetry(StatusOf(i))
          /\ InInvalid(StatusOf(i))
          /\ ~InValid(StatusOf(i))
          /\ i < MaxAttempts
  /\ pc = "backoff" =>
       /\ response # Unbound
       /\ response.status_code \in
            (self.retry_statuses \cap self.invalid_statuses) \ self.valid_statuses
       /\ attempt_number < MaxAttempts
  /\ \A i \in 1..Len(log) :
       (IsResponse(i) /\ InRetry(StatusOf(i))
          /\ ~InValid(StatusOf(i)) /\ ~InInvalid(StatusOf(i))) =>
          /\ i = Len(log)
          /\ pc \in {"handle", "finally", "done"}
          /\ Done => calls = i

\* both cases in one run of a handler allowed three attempts: the first
\* response was resent, the second, retry-only, ended the invocation
C17_Witness ==
  /\ Done /\ MaxAttempts = 3
  /\ Len(log) = 2 /\ calls = 2
  /\ IsResponse(1) /\ ResentStatus(StatusOf(1))
  /\ IsResponse(2) /\ SpecRetryable(StatusOf(2))
  /\ result = Raise(Exc("UnspecifiedHTTPStatusError", <<StatusOf(2)>>, 2))

(***************************************************************************)
(* C18: the jitter drawn by _backoff_delay decides the length of a backoff *)
(* delay and nothing else.  Whether outcome k ends the invocation, the     *)
(* numbers of attempts, transport calls, backoff delays and pacing delays, *)
(* and the result or error delivered are all determined by the handler     *)
(* fields and the transport outcomes, so two runs that differ only in      *)
(* their jitter agree on them.                                             *)
(***************************************************************************)
\* the invocation has decided to go on after the last outcome
GoesOn ==
  \/ pc = "backoff"
  \/ pc = "finally" /\ pending.kind = "none"
  \/ pc \in {"while", "try"} /\ Len(log) >= 1

C18_JitterOnlyInDelay ==
  Started =>
     /\ \A k \in 1..Len(log) - 1 : ~TerminalAt(self, log, k)
     /\ GoesOn => ~TerminalAt(self, log, Len(log))
     /\ (Done /\ Len(log) >= 1) => TerminalAt(self, log, Len(log))
     /\ Done =>
          /\ result = ExpectedResult(self, log)
          /\ iterations = ExpectedAttempts(self, log)
          /\ calls = Len(log)
          /\ paces = iterations
          /\ backoffs = IF iterations = 0 THEN 0 ELSE iterations - 1
     /\ backoffs >= 1 =>
          /\ delay >= _backoff_delay(backoffs, 0)
          /\ delay <= 2 * _backoff_delay(backoffs, 0)

\* a run of two attempts whose backoff delay drew the largest jitter, and
\* so slept twice the base, ended as the transport outcomes dictate
C18_Witness ==
  /\ Done
  /\ Len(log) = 2 /\ backoffs = 1
  /\ delay = 2 * _backoff_delay(1, 0)
  /\ result = ExpectedResult(self, log)
  /\ result.kind = "return"

=============================================================================
